---- MODULE Spec2Model ----
(***************************************************************************)
(* State machine of MatDatepickerBase (src/material/datepicker/            *)
(* datepicker-base.ts): the open()/close() life cycle of one datepicker    *)
(* instance, its popup overlay and dialog handles, the deferred            *)
(* completeClose callbacks, the content panel's animation-done events and  *)
(* user selections, the dialog's afterClosed notifications, the onStable   *)
(* position update and ngOnDestroy().                                      *)
(***************************************************************************)
EXTENDS Naturals, Sequences, FiniteSets

\* Bounds of the model: how many presentations (overlays and dialogs) are
\* ever created, and how many completeClose timeouts may be pending at once.
MaxOpens == 2
MaxTimers == 2

\* null / undefined object reference.
Null == 0

\* Identities of the overlays and dialogs created by open().
Ids == 1 .. MaxOpens

\* DOM elements that can be document.activeElement; those of Focusable have
\* a focus() function, the remaining one does not.
Elements == {1, 2, 3}
Focusable == {1, 2}

\* Input controls that may try to register with the datepicker.
Inputs == {1, 2}

\* Keys of a keydown event on the popup.
Keys == {"ESCAPE", "UP_ARROW", "OTHER"}

VARIABLES
  _opened,                    \* private _opened
  _disabled,                  \* private _disabled: undefined | true | false
  _touchUi,                   \* private _touchUi
  _datepickerInput,           \* registered input, or Null
  inputDisabled,              \* _datepickerInput.disabled
  _document,                  \* whether the optional DOCUMENT was injected
  activeElement,              \* document.activeElement
  _focusedElementBeforeOpen,  \* element recorded by open(), or Null
  _popupRef,                  \* overlay handle, or Null
  _popupComponentRef,         \* content panel of the popup, or Null
  _dialogRef,                 \* dialog handle, or Null
  overlayState,               \* per overlay: none | enter | void | disposed
  animationDoneSubs,          \* per overlay: take(1) subscriptions of close()
  disposeCalls,               \* per overlay: calls of OverlayRef.dispose()
  dialogState,                \* per dialog: none | open | closing | closed
  pendingTimeouts,            \* number of setTimeout(completeClose) pending
  events,                     \* openedStream / closedStream emissions, in order
  nextId,                     \* identity of the next overlay or dialog
  focusAtOpen,                \* activeElement when the current cycle was opened
  onStableSubs,               \* take(1) subscriptions of _openAsPopup() to onStable
  destroyed,                  \* whether ngOnDestroy() has run
  lastOp,                     \* the handler that ran last
  lastResult                  \* the branch that handler took

configVars == <<_disabled, _touchUi, _datepickerInput, inputDisabled, _document,
                destroyed>>
openVars == <<nextId, onStableSubs>>
popupVars == <<_popupRef, _popupComponentRef, overlayState, animationDoneSubs,
               disposeCalls>>
dialogVars == <<_dialogRef, dialogState>>
closeVars == <<_opened, _focusedElementBeforeOpen, activeElement,
               pendingTimeouts, events>>
vars == <<_opened, _disabled, _touchUi, _datepickerInput, inputDisabled,
          _document, activeElement, _focusedElementBeforeOpen, _popupRef,
          _popupComponentRef, _dialogRef, overlayState, animationDoneSubs,
          disposeCalls, dialogState, pendingTimeouts, events, nextId, focusAtOpen,
          onStableSubs, destroyed, lastOp, lastResult>>

Init ==
  /\ _opened = FALSE
  /\ _disabled = "undefined"
  /\ _touchUi = FALSE
  /\ _datepickerInput = Null
  /\ inputDisabled = FALSE
  /\ _document \in BOOLEAN
  /\ activeElement = 1
  /\ _focusedElementBeforeOpen = Null
  /\ _popupRef = Null
  /\ _popupComponentRef = Null
  /\ _dialogRef = Null
  /\ overlayState = [i \in Ids |-> "none"]
  /\ animationDoneSubs = [i \in Ids |-> 0]
  /\ disposeCalls = [i \in Ids |-> 0]
  /\ dialogState = [i \in Ids |-> "none"]
  /\ pendingTimeouts = 0
  /\ events = <<>>
  /\ nextId = 1
  /\ focusAtOpen = Null
  /\ onStableSubs = 0
  /\ destroyed = FALSE
  /\ lastOp = "init"
  /\ lastResult = "none"

----------------------------------------------------------------------------
\* Getters and guards.

\* get disabled() that never consults the registered input.
disabled_ownFlagOnly == _disabled = "true"

\* get disabled()
disabled ==
  IF _disabled = "undefined" /\ _datepickerInput # Null
    THEN inputDisabled
    ELSE _disabled = "true"

\* open() that forgets the _opened half of its guard.
OpenIsIgnored_disabledOnly == disabled

\* open(): if (this._opened || this.disabled) return;
OpenIsIgnored == _opened \/ disabled

\* open() without its check of the registered input.
OpenThrows_never == FALSE

\* open(): if (!this._datepickerInput) throw ...
OpenThrows == _datepickerInput = Null

\* open() with the branches of its ternary swapped.
OpensAsDialog_swapped == ~_touchUi

\* open(): this.touchUi ? this._openAsDialog() : this._openAsPopup()
OpensAsDialog == _touchUi

\* close() without its early return.
CloseIsIgnored_never == FALSE

\* close(): if (!this._opened) return;
CloseIsIgnored == ~_opened

\* close() that always takes the synchronous branch.
CanRestoreFocus_never == FALSE

\* close() that tests only that an element was recorded.
CanRestoreFocus_anyElement == _focusedElementBeforeOpen # Null

\* close(): this._focusedElementBeforeOpen &&
\*          typeof this._focusedElementBeforeOpen.focus === 'function'
CanRestoreFocus ==
  /\ _focusedElementBeforeOpen # Null
  /\ _focusedElementBeforeOpen \in Focusable

\* The keydown filter without its test of altKey.
KeydownCloses_ignoresAlt(key, altKey) ==
  \/ key = "ESCAPE"
  \/ (_datepickerInput # Null /\ key = "UP_ARROW")

\* _createPopup(): the filter of keydownEvents()
KeydownCloses(key, altKey) ==
  \/ key = "ESCAPE"
  \/ (_datepickerInput # Null /\ altKey /\ key = "UP_ARROW")

\* Overlays that were created and not yet disposed.
LiveOverlays == {i \in Ids : overlayState[i] \in {"enter", "void"}}

\* Dialogs that are open (dismissal not yet started).
OpenDialogs == {i \in Ids : dialogState[i] = "open"}

----------------------------------------------------------------------------
\* Configuration and environment.

\* _registerInput() without its check of an earlier registration.
RegisterThrows_never == FALSE

\* _registerInput(): if (this._datepickerInput) throw ...
RegisterThrows == _datepickerInput # Null

\* _registerInput(input)
_registerInput(input, isDisabled) ==
  /\ ~destroyed
  /\ lastOp' = "registerInput"
  /\ IF RegisterThrows
       THEN /\ lastResult' = "threw"
            /\ UNCHANGED <<_datepickerInput, inputDisabled>>
       ELSE /\ lastResult' = "model"
            /\ _datepickerInput' = input
            /\ inputDisabled' = isDisabled
  /\ UNCHANGED <<_disabled, _touchUi, _document, destroyed, popupVars, dialogVars,
                 closeVars, openVars, focusAtOpen>>

\* An input registers itself: the first to do so is input 1, any later
\* one is input 2.
RegisterInput ==
  \E b \in BOOLEAN :
    _registerInput(IF _datepickerInput = Null THEN 1 ELSE 2, b)

\* set disabled(value)
SetDisabled(value) ==
  /\ ~destroyed
  /\ _disabled' = (IF value THEN "true" ELSE "false")
  /\ lastOp' = "set"
  /\ lastResult' = "none"
  /\ UNCHANGED <<_touchUi, _datepickerInput, inputDisabled, _document, destroyed,
                 popupVars, dialogVars, closeVars, openVars, focusAtOpen>>

\* set touchUi(value)
SetTouchUi(value) ==
  /\ ~destroyed
  /\ _touchUi' = value
  /\ lastOp' = "set"
  /\ lastResult' = "none"
  /\ UNCHANGED <<_disabled, _datepickerInput, inputDisabled, _document, destroyed,
                 popupVars, dialogVars, closeVars, openVars, focusAtOpen>>

\* The registered input becomes disabled or enabled.
SetInputDisabled(value) ==
  /\ ~destroyed
  /\ _datepickerInput # Null
  /\ inputDisabled' = value
  /\ lastOp' = "set"
  /\ lastResult' = "none"
  /\ UNCHANGED <<_disabled, _touchUi, _datepickerInput, _document, destroyed,
                 popupVars, dialogVars, closeVars, openVars, focusAtOpen>>

\* The user moves focus to another element.
FocusMove(e) ==
  /\ ~destroyed
  /\ activeElement # e
  /\ activeElement' = e
  /\ lastOp' = "focus"
  /\ lastResult' = "none"
  /\ UNCHANGED <<configVars, popupVars, dialogVars, _opened,
                 _focusedElementBeforeOpen, pendingTimeouts, events, openVars,
                 focusAtOpen>>

----------------------------------------------------------------------------
\* Presentation handles.

\* OverlayRef.dispose() of _destroyPopup(), on the overlay `ref`.
DisposeOverlay(ref, states) ==
  IF ref # Null THEN [states EXCEPT ![ref] = "disposed"] ELSE states

\* The calls of OverlayRef.dispose() after one more on the overlay `ref`.
CountDispose(ref, calls) ==
  IF ref # Null THEN [calls EXCEPT ![ref] = @ + 1] ELSE calls

\* Disposing an overlay destroys its content panel, whose ngOnDestroy
\* completes _animationDone: the subscriptions of close() end with it.
CompleteAnimationDone(ref, subs) ==
  IF ref # Null THEN [subs EXCEPT ![ref] = 0] ELSE subs

\* MatDialogRef.close(): an open dialog starts closing; its afterClosed
\* notification is delivered later.
CloseDialog(ref, states) ==
  IF ref # Null /\ states[ref] = "open"
    THEN [states EXCEPT ![ref] = "closing"]
    ELSE states

\* _destroyPopup() that disposes the overlay but keeps both references.
_destroyPopup_keepsHandle(subs) ==
  IF _popupRef # Null
    THEN /\ overlayState' = DisposeOverlay(_popupRef, overlayState)
         /\ disposeCalls' = CountDispose(_popupRef, disposeCalls)
         /\ animationDoneSubs' = CompleteAnimationDone(_popupRef, subs)
         /\ UNCHANGED <<_popupRef, _popupComponentRef>>
    ELSE /\ animationDoneSubs' = subs
         /\ UNCHANGED <<_popupRef, _popupComponentRef, overlayState,
                        disposeCalls>>

\* _destroyPopup(), run when the animation-done subscriptions are `subs`.
_destroyPopup(subs) ==
  IF _popupRef # Null
    THEN /\ overlayState' = DisposeOverlay(_popupRef, overlayState)
         /\ disposeCalls' = CountDispose(_popupRef, disposeCalls)
         /\ animationDoneSubs' = CompleteAnimationDone(_popupRef, subs)
         /\ _popupRef' = Null
         /\ _popupComponentRef' = Null
    ELSE /\ animationDoneSubs' = subs
         /\ UNCHANGED <<_popupRef, _popupComponentRef, overlayState,
                        disposeCalls>>

\* _openAsDialog()
_openAsDialog ==
  /\ dialogState' =
       [CloseDialog(_dialogRef, dialogState) EXCEPT ![nextId] = "open"]
  /\ _dialogRef' = nextId
  /\ UNCHANGED <<popupVars, onStableSubs>>

\* _openAsPopup(): _destroyPopup(), _createPopup(), attach
_openAsPopup ==
  /\ overlayState' =
       [DisposeOverlay(_popupRef, overlayState) EXCEPT ![nextId] = "enter"]
  /\ disposeCalls' = CountDispose(_popupRef, disposeCalls)
  /\ animationDoneSubs' = CompleteAnimationDone(_popupRef, animationDoneSubs)
  /\ _popupRef' = nextId
  /\ _popupComponentRef' = nextId
  /\ onStableSubs' = onStableSubs + 1
  /\ UNCHANGED dialogVars

----------------------------------------------------------------------------
\* open() and close().

\* open() that records the focused element before it checks the input.
open_throwsLate ==
  /\ ~destroyed
  /\ (~OpenIsIgnored /\ ~OpenThrows) => nextId <= MaxOpens
  /\ lastOp' = "open"
  /\ IF OpenIsIgnored
       THEN /\ lastResult' = "ignored"
            /\ UNCHANGED <<popupVars, dialogVars, closeVars, openVars,
                           focusAtOpen>>
       ELSE /\ _focusedElementBeforeOpen' =
                 (IF _document THEN activeElement
                               ELSE _focusedElementBeforeOpen)
            /\ IF OpenThrows
                 THEN /\ lastResult' = "threw"
                      /\ UNCHANGED <<popupVars, dialogVars, _opened,
                                     activeElement, pendingTimeouts, events,
                                     openVars, focusAtOpen>>
                 ELSE /\ lastResult' = "opened"
                      /\ focusAtOpen' = activeElement
                      /\ IF OpensAsDialog THEN _openAsDialog
                                          ELSE _openAsPopup
                      /\ nextId' = nextId + 1
                      /\ _opened' = TRUE
                      /\ events' = Append(events, "opened")
                      /\ UNCHANGED <<activeElement, pendingTimeouts>>
  /\ UNCHANGED configVars

\* open()
open ==
  /\ ~destroyed
  /\ (~OpenIsIgnored /\ ~OpenThrows) => nextId <= MaxOpens
  /\ lastOp' = "open"
  /\ IF OpenIsIgnored
       THEN /\ lastResult' = "ignored"
            /\ UNCHANGED <<popupVars, dialogVars, closeVars, openVars,
                           focusAtOpen>>
       ELSE IF OpenThrows
         THEN /\ lastResult' = "threw"
              /\ UNCHANGED <<popupVars, dialogVars, closeVars, openVars,
                             focusAtOpen>>
         ELSE /\ lastResult' = "opened"
              /\ _focusedElementBeforeOpen' =
                   (IF _document THEN activeElement
                                 ELSE _focusedElementBeforeOpen)
              /\ focusAtOpen' = activeElement
              /\ IF OpensAsDialog THEN _openAsDialog ELSE _openAsPopup
              /\ nextId' = nextId + 1
              /\ _opened' = TRUE
              /\ events' = Append(events, "opened")
              /\ UNCHANGED <<activeElement, pendingTimeouts>>
  /\ UNCHANGED configVars

\* completeClose without its test of _opened.
completeClose_unguarded ==
  /\ _opened' = FALSE
  /\ events' = Append(events, "closed")
  /\ _focusedElementBeforeOpen' = Null
  /\ focusAtOpen' = Null

\* completeClose that forgets to clear the recorded element.
completeClose_keepsElement ==
  IF _opened
    THEN /\ _opened' = FALSE
         /\ events' = Append(events, "closed")
         /\ focusAtOpen' = Null
         /\ UNCHANGED _focusedElementBeforeOpen
    ELSE UNCHANGED <<_opened, events, _focusedElementBeforeOpen, focusAtOpen>>

\* completeClose, the closure of close()
completeClose ==
  IF _opened
    THEN /\ _opened' = FALSE
         /\ events' = Append(events, "closed")
         /\ _focusedElementBeforeOpen' = Null
         /\ focusAtOpen' = Null
    ELSE UNCHANGED <<_opened, events, _focusedElementBeforeOpen, focusAtOpen>>

\* close() that tears the popup down at once instead of animating it out.
CloseStartsExitAnimation_disposesAtOnce == _destroyPopup(animationDoneSubs)

\* close(): the exit animation of a popup and its animation-done subscription
CloseStartsExitAnimation ==
  IF _popupComponentRef # Null /\ _popupRef # Null
    THEN /\ overlayState' =
              [overlayState EXCEPT ![_popupComponentRef] = "void"]
         /\ animationDoneSubs' =
              [animationDoneSubs EXCEPT ![_popupComponentRef] = @ + 1]
         /\ UNCHANGED <<_popupRef, _popupComponentRef, disposeCalls>>
    ELSE UNCHANGED popupVars

\* close() after its popup part: the dialog is dismissed, focus is restored
\* and completeClose runs now or in a timeout.
CloseDialogAndComplete(dialogs) ==
  /\ IF _dialogRef # Null
       THEN /\ dialogState' = CloseDialog(_dialogRef, dialogs)
            /\ _dialogRef' = Null
       ELSE /\ dialogState' = dialogs
            /\ UNCHANGED _dialogRef
  /\ IF CanRestoreFocus
       THEN /\ lastResult' = "deferred"
            /\ activeElement' = _focusedElementBeforeOpen
            /\ pendingTimeouts' = pendingTimeouts + 1
            /\ UNCHANGED <<_opened, events, focusAtOpen,
                           _focusedElementBeforeOpen>>
       ELSE /\ lastResult' = "completed"
            /\ completeClose
            /\ UNCHANGED <<activeElement, pendingTimeouts>>

\* The body of close(), run when the dialogs are in the states `dialogs`.
CloseBody(dialogs) ==
  /\ (~CloseIsIgnored /\ CanRestoreFocus) => pendingTimeouts < MaxTimers
  /\ IF CloseIsIgnored
       THEN /\ lastResult' = "ignored"
            /\ dialogState' = dialogs
            /\ UNCHANGED <<popupVars, _dialogRef, closeVars, focusAtOpen>>
       ELSE /\ CloseStartsExitAnimation
            /\ CloseDialogAndComplete(dialogs)
  /\ UNCHANGED <<configVars, openVars>>

\* close()
close ==
  /\ ~destroyed
  /\ lastOp' = "close"
  /\ CloseBody(dialogState)

\* setTimeout(completeClose) fires.
CompleteCloseTimeout ==
  /\ pendingTimeouts > 0
  /\ pendingTimeouts' = pendingTimeouts - 1
  /\ lastOp' = "timeout"
  /\ lastResult' = (IF _opened THEN "completed" ELSE "ignored")
  /\ completeClose
  /\ UNCHANGED <<configVars, popupVars, dialogVars, activeElement, openVars>>

----------------------------------------------------------------------------
\* Events of the popup overlay, the content panel and the dialog.

\* _createPopup(): backdropClick() of the overlay `o`
BackdropClick(o) ==
  /\ o \in LiveOverlays
  /\ lastOp' = "backdropClick"
  /\ CloseBody(dialogState)

\* _createPopup(): detachments() of the overlay `o`
Detachment(o) ==
  /\ o \in LiveOverlays
  /\ lastOp' = "detachment"
  /\ CloseBody(dialogState)

\* _createPopup(): keydownEvents() of the overlay `o`, filtered
Keydown(o, key, altKey) ==
  /\ o \in LiveOverlays
  /\ lastOp' = (IF key = "ESCAPE" THEN "escape"
                ELSE IF key = "UP_ARROW" /\ altKey THEN "altUp"
                ELSE IF key = "UP_ARROW" THEN "upArrow"
                ELSE "key")
  /\ IF KeydownCloses(key, altKey)
       THEN CloseBody(dialogState)
       ELSE /\ lastResult' = "filtered"
            /\ UNCHANGED <<configVars, popupVars, dialogVars, closeVars,
                           openVars, focusAtOpen>>

\* (@transformPanel.done) of the content panel of overlay `o`: the take(1)
\* subscriptions made by close() are consumed and each runs _destroyPopup(),
\* which after the first finds no popup.
AnimationDone(o) ==
  /\ o \in LiveOverlays
  /\ animationDoneSubs[o] > 0
  /\ lastOp' = "animationDone"
  /\ lastResult' = "none"
  /\ _destroyPopup([animationDoneSubs EXCEPT ![o] = 0])
  /\ UNCHANGED <<configVars, dialogVars, closeVars, openVars, focusAtOpen>>

\* The user dismisses the dialog `d` itself (disableClose: false).
DialogDismiss(d) ==
  /\ d \in OpenDialogs
  /\ dialogState' = [dialogState EXCEPT ![d] = "closing"]
  /\ lastOp' = "dialogDismiss"
  /\ lastResult' = "none"
  /\ UNCHANGED <<configVars, popupVars, _dialogRef, closeVars, openVars,
                 focusAtOpen>>

\* _openAsDialog(): afterClosed() of the dialog `d` runs close().
DialogAfterClosed(d) ==
  /\ d \in Ids
  /\ dialogState[d] = "closing"
  /\ lastOp' = "afterClosed"
  /\ CloseBody([dialogState EXCEPT ![d] = "closed"])

\* The content panels that can report a user selection: those of the live
\* overlays and of the open dialogs.
ContentPanels == LiveOverlays \cup OpenDialogs

\* _handleUserSelection() that closes on every selection.
SelectionCloses_always(hasModel, isComplete) == TRUE

\* _handleUserSelection(): !this._model || this._model.isComplete()
SelectionCloses(hasModel, isComplete) == ~hasModel \/ isComplete

\* MatDatepickerContent._handleUserSelection() of the content panel `c`,
\* whose selection model is absent or reports isComplete().
_handleUserSelection(c, hasModel, isComplete) ==
  /\ c \in ContentPanels
  /\ lastOp' = (IF ~hasModel THEN "selectNoModel"
                ELSE IF isComplete THEN "selectComplete"
                ELSE "selectIncomplete")
  /\ IF SelectionCloses(hasModel, isComplete)
       THEN CloseBody(dialogState)
       ELSE /\ lastResult' = "kept"
            /\ UNCHANGED <<configVars, popupVars, dialogVars, closeVars,
                           openVars, focusAtOpen>>

\* _openAsPopup(): the next onStable emission runs every pending
\* subscription, each calling this._popupRef!.updatePosition().
OnStable ==
  /\ onStableSubs > 0
  /\ onStableSubs' = 0
  /\ lastOp' = "onStable"
  /\ lastResult' = (IF _popupRef = Null THEN "threw" ELSE "updated")
  /\ UNCHANGED <<configVars, popupVars, dialogVars, closeVars, nextId,
                 focusAtOpen>>

\* ngOnDestroy(): _destroyPopup(), then close(), which finds no popup.
ngOnDestroy ==
  /\ ~destroyed
  /\ (~CloseIsIgnored /\ CanRestoreFocus) => pendingTimeouts < MaxTimers
  /\ destroyed' = TRUE
  /\ lastOp' = "destroy"
  /\ _destroyPopup(animationDoneSubs)
  /\ IF CloseIsIgnored
       THEN /\ lastResult' = "ignored"
            /\ UNCHANGED <<dialogVars, closeVars, focusAtOpen>>
       ELSE CloseDialogAndComplete(dialogState)
  /\ UNCHANGED <<_disabled, _touchUi, _datepickerInput, inputDisabled,
                 _document, openVars>>

----------------------------------------------------------------------------
Next ==
  \/ RegisterInput
  \/ \E b \in BOOLEAN : SetDisabled(b)
  \/ \E b \in BOOLEAN : SetTouchUi(b)
  \/ \E b \in BOOLEAN : SetInputDisabled(b)
  \/ \E e \in Elements : FocusMove(e)
  \/ open
  \/ close
  \/ CompleteCloseTimeout
  \/ \E o \in Ids : BackdropClick(o)
  \/ \E o \in Ids : Detachment(o)
  \/ \E o \in Ids, k \in Keys, a \in BOOLEAN : Keydown(o, k, a)
  \/ \E o \in Ids : AnimationDone(o)
  \/ \E d \in Ids : DialogDismiss(d)
  \/ \E d \in Ids : DialogAfterClosed(d)
  \/ \E c \in Ids, m \in BOOLEAN, f \in BOOLEAN : _handleUserSelection(c, m, f)
  \/ OnStable
  \/ ngOnDestroy

Spec == Init /\ [][Next]_vars

\* The event loop runs every pending setTimeout(completeClose) callback, and
\* the exit animation of a popup ends with its animation-done event.
FairSpec ==
  /\ Spec
  /\ WF_vars(CompleteCloseTimeout)
  /\ WF_vars(\E o \in Ids : AnimationDone(o))

----------------------------------------------------------------------------
\* Properties.

\* Dialogs and overlays that a step creates.
CreatedDialogs ==
  {i \in Ids : dialogState[i] = "none" /\ dialogState'[i] # "none"}
CreatedOverlays ==
  {i \in Ids : overlayState[i] = "none" /\ overlayState'[i] # "none"}

\* C1: in every reachable state at most one presentation handle is live:
\* the datepicker never holds a popup overlay (attached or still running its
\* exit animation) and a dialog at the same time.
C1_AtMostOneHandle ==
  ~(/\ _popupRef # Null
    /\ _popupRef \in LiveOverlays
    /\ _dialogRef # Null
    /\ _dialogRef \in OpenDialogs)

\* C2: open() called while _opened is true (also between close() and its
\* deferred completeClose) changes no handle, does not re-record the focused
\* element, emits nothing and does not throw.
C2_OpenWhileOpenedIsNoop ==
  [][(lastOp' = "open" /\ _opened) =>
       /\ UNCHANGED <<popupVars, dialogVars, closeVars, nextId>>
       /\ lastResult' # "threw"]_vars

C2_Witness ==
  /\ lastOp = "open"
  /\ lastResult = "ignored"
  /\ _opened
  /\ pendingTimeouts > 0
  /\ _disabled = "false"

\* C3: close() called while _opened is false emits nothing, does not move
\* focus, schedules no timeout, changes no handle and does not throw.
C3_CloseWhileClosedIsNoop ==
  [][(lastOp' = "close" /\ ~_opened) =>
       /\ UNCHANGED <<popupVars, dialogVars, closeVars>>
       /\ lastResult' # "threw"]_vars

C3_Witness ==
  /\ lastOp = "close"
  /\ lastResult = "ignored"
  /\ ~_opened
  /\ _popupRef # Null
  /\ events = <<"opened", "closed">>

\* C4 as claimed: in every state with no registered input, whatever the
\* disabled and touch-mode settings, open() throws.
C4_OpenWithoutInputAlwaysThrows ==
  [][(lastOp' = "open" /\ _datepickerInput = Null) =>
       lastResult' = "threw"]_vars

\* C4 amended: in every state with no registered input in which the
\* datepicker's own disabled flag is not true, whatever the touch-mode
\* setting, open() throws.
C4_OpenWithoutInputThrowsUnlessDisabled ==
  [][(lastOp' = "open" /\ _datepickerInput = Null /\ _disabled # "true") =>
       lastResult' = "threw"]_vars

C4_Witness ==
  /\ lastOp = "open"
  /\ lastResult = "threw"
  /\ _datepickerInput = Null
  /\ _disabled = "false"
  /\ _touchUi

\* C5 as claimed: after close() on an open datepicker, focus is on the
\* element that was focused when the cycle's open() was called.
C5_CloseRestoresFocus ==
  [][(lastOp' = "close" /\ _opened) => activeElement' = focusAtOpen]_vars

\* C5 amended: after close() on an open datepicker, focus is on the element
\* that was focused when the cycle's open() was called, provided the document
\* is available and that element has a focus function.
C5_CloseRestoresFocusableFocus ==
  [][(lastOp' = "close" /\ _opened /\ _document /\ focusAtOpen \in Focusable)
       => activeElement' = focusAtOpen]_vars

C5_Witness ==
  /\ lastOp = "close"
  /\ lastResult = "deferred"
  /\ events = <<"opened", "closed", "opened">>
  /\ focusAtOpen = 2
  /\ activeElement = 2
  /\ dialogState[2] = "closing"

\* C6: close() on an open datepicker whose recorded element is focusable
\* restores focus at once, leaves _opened true and emits nothing, and
\* schedules one timeout; while such an element is recorded only a timeout
\* callback marks the datepicker closed, and open() before it creates
\* nothing; with no focusable element recorded close() finalizes at once.
C6_CloseIsDeferredAfterFocus ==
  [][/\ (lastOp' = "close" /\ _opened
           /\ _focusedElementBeforeOpen \in Focusable) =>
          /\ activeElement' = _focusedElementBeforeOpen
          /\ _opened'
          /\ events' = events
          /\ pendingTimeouts' = pendingTimeouts + 1
     /\ (_opened /\ ~_opened' /\ _focusedElementBeforeOpen \in Focusable) =>
          /\ lastOp' = "timeout"
          /\ events' = Append(events, "closed")
     /\ (lastOp' = "open" /\ _opened /\ pendingTimeouts > 0) =>
          UNCHANGED <<popupVars, dialogVars, nextId, events>>
     /\ (lastOp' = "close" /\ _opened
           /\ _focusedElementBeforeOpen \notin Focusable) =>
          /\ ~_opened'
          /\ events' = Append(events, "closed")
          /\ UNCHANGED <<activeElement, pendingTimeouts>>]_vars

C6_Witness ==
  /\ lastOp = "close"
  /\ lastResult = "deferred"
  /\ _opened
  /\ pendingTimeouts = 1
  /\ events = <<"opened">>
  /\ activeElement = _focusedElementBeforeOpen

\* C7: an open() that is not ignored and does not throw creates exactly one
\* presentation, chosen by the touch-mode flag at the call (a dialog and no
\* overlay when true, an overlay and no dialog when false), then sets
\* _opened and emits exactly one "opened".
C7_OpenCreatesOnePresentation ==
  [][(/\ lastOp' = "open"
      /\ ~_opened
      /\ _datepickerInput # Null
      /\ ~(_disabled = "true" \/ (_disabled = "undefined" /\ inputDisabled)))
       =>
       /\ _opened'
       /\ events' = Append(events, "opened")
       /\ IF _touchUi
            THEN /\ Cardinality(CreatedDialogs) = 1
                 /\ CreatedOverlays = {}
                 /\ _dialogRef' \in CreatedDialogs
                 /\ dialogState'[_dialogRef'] = "open"
            ELSE /\ Cardinality(CreatedOverlays) = 1
                 /\ CreatedDialogs = {}
                 /\ _popupRef' \in CreatedOverlays
                 /\ _popupComponentRef' = _popupRef'
                 /\ overlayState'[_popupRef'] = "enter"]_vars

C7_Witness ==
  /\ lastOp = "open"
  /\ lastResult = "opened"
  /\ _touchUi
  /\ _dialogRef # Null
  /\ dialogState[_dialogRef] = "open"
  /\ _popupRef = Null
  /\ events = <<"opened">>

\* C8: in every reachable state in which a popup is attached and not yet
\* exiting, an Escape keydown or a backdrop click on it makes close() take
\* effect and starts the exit animation.
C8_EscapeAndBackdropClosePopup ==
  [][(/\ lastOp' \in {"escape", "backdropClick"}
      /\ _popupRef # Null
      /\ overlayState[_popupRef] = "enter")
       =>
       /\ lastResult' \in {"deferred", "completed"}
       /\ overlayState'[_popupRef] = "void"]_vars

\* C9: registering an input when one is registered throws and leaves the
\* first input registered; the first registration succeeds, registers the
\* input and returns the selection model.
C9_SecondRegistrationThrows ==
  [][(lastOp' = "registerInput") =>
       IF _datepickerInput # Null
         THEN /\ lastResult' = "threw"
              /\ _datepickerInput' = _datepickerInput
         ELSE /\ lastResult' = "model"
              /\ _datepickerInput' \in Inputs]_vars

C9_Witness ==
  /\ lastOp = "registerInput"
  /\ lastResult = "threw"
  /\ _datepickerInput = 1

\* C10: open() called while the datepicker is disabled (own flag true, or
\* own flag never set and the registered input disabled) leaves _opened,
\* the handles, the recorded focus element and the emissions unchanged.
C10_OpenWhileDisabledIsNoop ==
  [][(/\ lastOp' = "open"
      /\ \/ _disabled = "true"
         \/ (_disabled = "undefined" /\ _datepickerInput # Null
               /\ inputDisabled))
       =>
       /\ UNCHANGED <<popupVars, dialogVars, closeVars, nextId>>
       /\ lastResult' # "threw"]_vars

C10_Witness ==
  /\ lastOp = "open"
  /\ lastResult = "ignored"
  /\ ~_opened
  /\ _disabled = "undefined"
  /\ _datepickerInput # Null
  /\ inputDisabled


\* C11 as claimed: close() on a datepicker open as a popup switches the
\* panel to 'void' and keeps the handle; a popup in its exit animation is
\* disposed only by its animation-done event, which clears both references;
\* close() on a datepicker open as a dialog dismisses the dialog and clears
\* its reference within the call.
C11_PopupLivesUntilAnimationDone ==
  [][/\ (lastOp' = "close" /\ _opened /\ _popupRef # Null
           /\ _popupComponentRef # Null) =>
          /\ overlayState'[_popupRef] = "void"
          /\ _popupRef' = _popupRef
          /\ _popupComponentRef' = _popupComponentRef
     /\ (_popupRef # Null /\ overlayState[_popupRef] = "void"
           /\ overlayState'[_popupRef] # "void") =>
          lastOp' = "animationDone"
     /\ (lastOp' = "animationDone" /\ _popupRef # Null) =>
          /\ overlayState'[_popupRef] = "disposed"
          /\ _popupRef' = Null
          /\ _popupComponentRef' = Null
     /\ (lastOp' = "close" /\ _opened /\ _dialogRef # Null) =>
          /\ dialogState'[_dialogRef] # "open"
          /\ _dialogRef' = Null]_vars

\* C11 amended: as C11, except that a popup in its exit animation is
\* disposed by its animation-done event, by open() re-opening the datepicker
\* as a popup, or by ngOnDestroy(), whichever comes first.
C11_PopupLivesUntilDisposed ==
  [][/\ (lastOp' = "close" /\ _opened /\ _popupRef # Null
           /\ _popupComponentRef # Null) =>
          /\ overlayState'[_popupRef] = "void"
          /\ _popupRef' = _popupRef
          /\ _popupComponentRef' = _popupComponentRef
     /\ (_popupRef # Null /\ overlayState[_popupRef] = "void"
           /\ overlayState'[_popupRef] # "void") =>
          /\ overlayState'[_popupRef] = "disposed"
          /\ \/ lastOp' \in {"animationDone", "destroy"}
             \/ (lastOp' = "open" /\ ~_touchUi /\ _popupRef' # _popupRef)
     /\ (lastOp' = "animationDone" /\ _popupRef # Null) =>
          /\ overlayState'[_popupRef] = "disposed"
          /\ _popupRef' = Null
          /\ _popupComponentRef' = Null
     /\ (lastOp' = "close" /\ _opened /\ _dialogRef # Null) =>
          /\ dialogState'[_dialogRef] # "open"
          /\ _dialogRef' = Null]_vars

C11_Witness ==
  /\ lastOp = "animationDone"
  /\ overlayState[1] = "disposed"
  /\ _popupRef = Null
  /\ _popupComponentRef = Null
  /\ ~_opened
  /\ events = <<"opened", "closed">>

\* C12: the emissions of openedStream and closedStream alternate strictly,
\* starting with "opened"; so one open cycle emits one "closed" however many
\* close() calls it sees, and "closed" never outnumbers "opened".
C12_EventsAlternate ==
  \A i \in 1 .. Len(events) :
    events[i] = (IF i % 2 = 1 THEN "opened" ELSE "closed")

C12_Witness ==
  /\ lastOp = "timeout"
  /\ lastResult = "ignored"
  /\ pendingTimeouts = 0
  /\ events = <<"opened", "closed">>

\* C13: in every reachable state a popup that is attached and not exiting
\* implies _opened: a completeClose timeout never marks a datepicker closed
\* that was re-opened after the close() that scheduled it.
C13_AttachedPopupImpliesOpened ==
  (_popupRef # Null /\ overlayState[_popupRef] = "enter") => _opened

\* C14: the afterClosed notification of a dialog does not close a
\* presentation that open() created after that dialog.
C14_LateAfterClosedKeepsNewPresentation ==
  [][\A a \in Ids :
       (/\ lastOp' = "afterClosed"
        /\ dialogState[a] = "closing"
        /\ dialogState'[a] = "closed"
        /\ _opened
        /\ \/ (_dialogRef > a /\ dialogState[_dialogRef] = "open")
           \/ (_popupRef > a /\ overlayState[_popupRef] = "enter"))
         =>
         UNCHANGED <<_opened, _dialogRef, _popupRef, overlayState,
                     pendingTimeouts, events>>]_vars


\* C16: a user selection that leaves the selection model incomplete leaves
\* the datepicker open with its presentation unchanged; a selection that
\* completes the model, or one made with no model present, runs close():
\* on an open datepicker the popup starts its exit animation, the dialog
\* reference is cleared and the datepicker is closed at once or after the
\* timeout that close() schedules.
C16_SelectionClosesWhenComplete ==
  [][/\ (lastOp' = "selectIncomplete") =>
          UNCHANGED <<popupVars, dialogVars, closeVars>>
     /\ (lastOp' \in {"selectComplete", "selectNoModel"} /\ _opened) =>
          /\ _dialogRef' = Null
          /\ (_popupRef # Null /\ _popupComponentRef # Null) =>
               overlayState'[_popupRef] = "void"
          /\ IF _focusedElementBeforeOpen \in Focusable
               THEN pendingTimeouts' = pendingTimeouts + 1
               ELSE ~_opened' /\ events' = Append(events, "closed")]_vars

C16_Witness ==
  /\ lastOp = "selectIncomplete"
  /\ lastResult = "kept"
  /\ _opened
  /\ _popupRef # Null
  /\ overlayState[_popupRef] = "enter"
  /\ pendingTimeouts = 0

\* C17: a keydown on a live popup other than Escape and Alt+Up-arrow (so
\* also Up-arrow without Alt) leaves _opened, the handles and the animation
\* state unchanged; Alt+Up-arrow with an input registered runs close().
C17_OtherKeysAreFiltered ==
  [][/\ (lastOp' \in {"upArrow", "key"}) =>
          UNCHANGED <<popupVars, dialogVars, closeVars>>
     /\ (lastOp' = "altUp" /\ _datepickerInput # Null /\ _opened) =>
          /\ _popupRef # Null => overlayState'[_popupRef] = "void"
          /\ lastResult' \in {"deferred", "completed"}]_vars

C17_Witness ==
  /\ lastOp = "upArrow"
  /\ lastResult = "filtered"
  /\ _opened
  /\ _popupRef # Null
  /\ overlayState[_popupRef] = "enter"

\* C18: open() that throws because no input is registered changes nothing:
\* _opened, the handles, the recorded focus element, the onStable
\* subscriptions and the emissions stay as they were; open() with an input
\* registered, on a closed and enabled datepicker, opens it.
C18_FailedOpenChangesNothing ==
  [][/\ (lastOp' = "open" /\ _datepickerInput = Null /\ _disabled # "true")
          =>
          /\ lastResult' = "threw"
          /\ UNCHANGED <<popupVars, dialogVars, closeVars, openVars>>
     /\ (/\ lastOp' = "open"
         /\ _datepickerInput # Null
         /\ ~_opened
         /\ ~(_disabled = "true" \/ (_disabled = "undefined" /\ inputDisabled)))
          =>
          /\ lastResult' = "opened"
          /\ _opened']_vars

C18_Witness ==
  /\ lastOp = "open"
  /\ lastResult = "threw"
  /\ _document
  /\ _focusedElementBeforeOpen = Null
  /\ ~_opened
  /\ _popupRef = Null
  /\ _dialogRef = Null
  /\ events = <<>>

\* C19: whenever the onStable callback of _openAsPopup() runs, the popup
\* reference is present.
C19_OnStableFindsPopup ==
  [][(lastOp' = "onStable") => _popupRef # Null]_vars

\* C20: ngOnDestroy() in any state leaves no presentation handle live: the
\* popup is disposed at once, an open dialog is dismissed and its reference
\* cleared, and an open datepicker is closed at once or after the timeout
\* that close() schedules.
C20_DestroyLeavesNoHandle ==
  [][(lastOp' = "destroy") =>
       /\ _popupRef' = Null
       /\ _popupComponentRef' = Null
       /\ \A i \in Ids : overlayState'[i] \notin {"enter", "void"}
       /\ _dialogRef' = Null
       /\ \A i \in Ids : dialogState'[i] # "open"
       /\ _opened =>
            IF _focusedElementBeforeOpen \in Focusable
              THEN pendingTimeouts' = pendingTimeouts + 1
              ELSE ~_opened' /\ events' = Append(events, "closed")]_vars


\* C15: after close() takes effect on an open datepicker, if the timeouts
\* and the animation-done event are delivered, the datepicker reaches a
\* state with _opened false, no popup handle, no dialog handle and no
\* recorded element, unless open() opens it again first.
C15_CloseLeadsToClosed ==
  (lastOp = "close" /\ lastResult \in {"deferred", "completed"})
    ~> \/ /\ ~_opened
          /\ _popupRef = Null
          /\ _popupComponentRef = Null
          /\ _dialogRef = Null
          /\ _focusedElementBeforeOpen = Null
       \/ (lastOp = "open" /\ lastResult = "opened")

C15_Witness ==
  /\ lastOp = "timeout"
  /\ lastResult = "completed"
  /\ ~destroyed
  /\ overlayState[1] = "disposed"
  /\ ~_opened
  /\ _popupRef = Null
  /\ _dialogRef = Null
  /\ _focusedElementBeforeOpen = Null
  /\ events = <<"opened", "closed">>

\* C21: popup disposal is idempotent. In every reachable state the popup
\* reference is null exactly when the content-panel reference is null, and
\* no overlay has had dispose() called on it more than once. A step taken
\* while no popup handle is held disposes nothing, and when it is
\* ngOnDestroy() it leaves the references and every overlay as they were. A
\* teardown of a held popup (the animation-done callbacks of however many
\* close() calls, ngOnDestroy(), or open() as a popup) disposes that handle
\* exactly once; after animation-done and ngOnDestroy() both references are
\* null, after open() both name the newly created popup.
C21_PopupDisposalIsIdempotent ==
  /\ [](/\ (_popupRef = Null) <=> (_popupComponentRef = Null)
        /\ \A i \in Ids : disposeCalls[i] <= 1
        /\ \A i \in Ids :
             (overlayState[i] = "disposed") <=> (disposeCalls[i] = 1))
  /\ [][/\ _popupRef = Null => disposeCalls' = disposeCalls
        /\ (_popupRef = Null /\ lastOp' = "destroy") =>
             /\ _popupRef' = Null
             /\ _popupComponentRef' = Null
             /\ overlayState' = overlayState
        /\ (_popupRef # Null /\ lastOp' \in {"animationDone", "destroy"}) =>
             /\ disposeCalls'[_popupRef] = 1
             /\ \A i \in Ids \ {_popupRef} : disposeCalls'[i] = disposeCalls[i]
             /\ overlayState'[_popupRef] = "disposed"
             /\ _popupRef' = Null
             /\ _popupComponentRef' = Null
        /\ (/\ _popupRef # Null
            /\ lastOp' = "open"
            /\ lastResult' = "opened"
            /\ ~_touchUi) =>
             /\ disposeCalls'[_popupRef] = 1
             /\ overlayState'[_popupRef] = "disposed"
             /\ _popupRef' \in CreatedOverlays
             /\ _popupComponentRef' = _popupRef']_vars

C21_Witness ==
  /\ lastOp = "animationDone"
  /\ ~destroyed
  /\ nextId = 2
  /\ pendingTimeouts = 2
  /\ overlayState[1] = "disposed"
  /\ disposeCalls[1] = 1
  /\ _popupRef = Null
  /\ _popupComponentRef = Null

====
